---- MODULE Spec2Model ----
(***************************************************************************)
(* huskyTech2 bootstrap (main.cpp): GLFW/GLEW start-up, the frame loop     *)
(* (input_update, draw) and the teardown function explode.                 *)
(*                                                                         *)
(* The program is single-threaded, so it is modelled as one process whose  *)
(* position is pc.  There is one action per statement of main; the three   *)
(* functions input_update, draw and explode are one action each.  Every    *)
(* call into GLFW/GLEW is appended to the history variable calls, and the  *)
(* values read by each input_update are appended to polls.                 *)
(***************************************************************************)
EXTENDS Integers, Sequences, FiniteSets

\* Largest number of input_update calls explored (the loop itself is unbounded).
MaxFrames == 6

GLFW_PRESS == 1
GLFW_RELEASE == 0

\* values glfwGetKey(window, GLFW_KEY_ESCAPE) can return
KeyStates == {GLFW_RELEASE, GLFW_PRESS}
\* values glfwWindowShouldClose(window) can return
CloseFlags == {0, 1}

VARIABLES
  pc,          \* position of the single thread in main
  alive,       \* global bool alive
  window,      \* global GLFWwindow* window: "NULL" or "handle"
  windowLive,  \* whether the GLFW window object behind the handle exists
  status,      \* outcome of glfwInit, glfwCreateWindow, glewInit
  calls,       \* history: library calls and hooks, in order
  polls,       \* history: <<key, shouldClose>> seen by each input_update
  exitStatus   \* process exit status: <<>> while running, <<s>> once exited

vars == <<pc, alive, window, windowLive, status, calls, polls, exitStatus>>

\* globals.h: alive is initialised true
alive_initial == TRUE

\* number of occurrences of call c in the history
Count(c) == Cardinality({i \in DOMAIN calls : calls[i] = c})

\* indices of the history at which call c occurs
At(c) == {i \in DOMAIN calls : calls[i] = c}

\* the condition of the if in input_update
ExitRequested(k, c) == k = GLFW_PRESS \/ c # 0

Init ==
  /\ pc = "glfwInit"
  /\ alive = alive_initial
  /\ window = "NULL"
  /\ windowLive = FALSE
  /\ status = [glfwInit |-> "uncalled", glfwCreateWindow |-> "uncalled", glewInit |-> "uncalled"]
  /\ calls = <<>>
  /\ polls = <<>>
  /\ exitStatus = <<>>

\* return -1 from main
ReturnFail ==
  /\ pc' = "exited"
  /\ exitStatus' = <<-1>>

\* main_glfwInit with the return after the failure report missing
main_glfwInit_noReturn ==
  /\ pc = "glfwInit"
  /\ \E ok \in BOOLEAN :
       /\ calls' = Append(calls, "glfwInit")
       /\ status' = [status EXCEPT !.glfwInit = IF ok THEN "ok" ELSE "fail"]
  /\ pc' = "glfwWindowHint"
  /\ UNCHANGED <<alive, window, windowLive, polls, exitStatus>>

\* if (!glfwInit()) { ...; return -1; }
main_glfwInit ==
  /\ pc = "glfwInit"
  /\ \E ok \in BOOLEAN :
       /\ calls' = Append(calls, "glfwInit")
       /\ status' = [status EXCEPT !.glfwInit = IF ok THEN "ok" ELSE "fail"]
       /\ IF ok
            THEN pc' = "glfwWindowHint" /\ exitStatus' = exitStatus
            ELSE ReturnFail
  /\ UNCHANGED <<alive, window, windowLive, polls>>

\* the four glfwWindowHint calls
main_glfwWindowHint ==
  /\ pc = "glfwWindowHint"
  /\ calls' = calls \o <<"glfwWindowHint", "glfwWindowHint", "glfwWindowHint", "glfwWindowHint">>
  /\ pc' = "glfwCreateWindow"
  /\ UNCHANGED <<alive, window, windowLive, status, polls, exitStatus>>

\* window = glfwCreateWindow(1280, 720, "huskyTech2", NULL, NULL);
main_glfwCreateWindow ==
  /\ pc = "glfwCreateWindow"
  /\ \E w \in {"NULL", "handle"} :
       /\ window' = w
       /\ windowLive' = (w = "handle")
       /\ status' = [status EXCEPT !.glfwCreateWindow = IF w = "handle" THEN "ok" ELSE "fail"]
  /\ calls' = Append(calls, "glfwCreateWindow")
  /\ pc' = "check_window"
  /\ UNCHANGED <<alive, polls, exitStatus>>

\* main_check_window with glfwTerminate missing from the failure branch
main_check_window_noTerminate ==
  /\ pc = "check_window"
  /\ IF window = "NULL"
       THEN /\ calls' = calls
            /\ ReturnFail
       ELSE /\ pc' = "glfwMakeContextCurrent"
            /\ UNCHANGED <<calls, exitStatus>>
  /\ UNCHANGED <<alive, window, windowLive, status, polls>>

\* main_check_window with glfwMakeContextCurrent left out of the success path
main_check_window_noMakeCurrent ==
  /\ pc = "check_window"
  /\ IF window = "NULL"
       THEN /\ calls' = Append(calls, "glfwTerminate")
            /\ ReturnFail
       ELSE /\ pc' = "glewInit"
            /\ UNCHANGED <<calls, exitStatus>>
  /\ UNCHANGED <<alive, window, windowLive, status, polls>>

\* if (window == NULL) { ...; glfwTerminate(); return -1; }
main_check_window ==
  /\ pc = "check_window"
  /\ IF window = "NULL"
       THEN /\ calls' = Append(calls, "glfwTerminate")
            /\ ReturnFail
       ELSE /\ pc' = "glfwMakeContextCurrent"
            /\ UNCHANGED <<calls, exitStatus>>
  /\ UNCHANGED <<alive, window, windowLive, status, polls>>

\* glfwMakeContextCurrent(window);
main_glfwMakeContextCurrent ==
  /\ pc = "glfwMakeContextCurrent"
  /\ calls' = Append(calls, "glfwMakeContextCurrent")
  /\ pc' = "glewInit"
  /\ UNCHANGED <<alive, window, windowLive, status, polls, exitStatus>>

\* main_glewInit with the result of glewInit ignored
main_glewInit_ignoreResult ==
  /\ pc = "glewInit"
  /\ \E ok \in BOOLEAN :
       /\ calls' = Append(calls, "glewInit")
       /\ status' = [status EXCEPT !.glewInit = IF ok THEN "ok" ELSE "fail"]
  /\ pc' = "glfwSetInputMode"
  /\ UNCHANGED <<alive, window, windowLive, polls, exitStatus>>

\* main_glewInit whose failure branch tears down before returning
main_glewInit_teardown ==
  /\ pc = "glewInit"
  /\ \E ok \in BOOLEAN :
       /\ status' = [status EXCEPT !.glewInit = IF ok THEN "ok" ELSE "fail"]
       /\ IF ok
            THEN /\ calls' = Append(calls, "glewInit")
                 /\ pc' = "glfwSetInputMode"
                 /\ UNCHANGED <<windowLive, exitStatus>>
            ELSE /\ calls' = calls \o <<"glewInit", "glfwDestroyWindow", "glfwTerminate">>
                 /\ windowLive' = FALSE
                 /\ ReturnFail
  /\ UNCHANGED <<alive, window, polls>>

\* if (glewInit() != GLEW_OK) { ...; return -1; }
main_glewInit ==
  /\ pc = "glewInit"
  /\ \E ok \in BOOLEAN :
       /\ calls' = Append(calls, "glewInit")
       /\ status' = [status EXCEPT !.glewInit = IF ok THEN "ok" ELSE "fail"]
       /\ IF ok
            THEN pc' = "glfwSetInputMode" /\ exitStatus' = exitStatus
            ELSE ReturnFail
  /\ UNCHANGED <<alive, window, windowLive, polls>>

\* glfwSetInputMode(window, GLFW_STICKY_KEYS, GL_TRUE);
main_glfwSetInputMode ==
  /\ pc = "glfwSetInputMode"
  /\ calls' = Append(calls, "glfwSetInputMode")
  /\ pc' = "while"
  /\ UNCHANGED <<alive, window, windowLive, status, polls, exitStatus>>

\* while (alive) {
main_while ==
  /\ pc = "while"
  /\ pc' = IF alive THEN "input_update" ELSE "return"
  /\ UNCHANGED <<alive, window, windowLive, status, calls, polls, exitStatus>>

\* input_update that only looks at the Escape key
input_update_keyOnly ==
  /\ pc = "input_update"
  /\ Len(polls) < MaxFrames
  /\ \E k \in KeyStates, c \in CloseFlags :
       /\ polls' = Append(polls, <<k, c>>)
       /\ calls' = calls \o <<"input_update", "glfwGetKey">>
       /\ alive' = IF k = GLFW_PRESS THEN FALSE ELSE alive
  /\ pc' = "if_alive"
  /\ UNCHANGED <<window, windowLive, status, exitStatus>>

\* input_update whose if has an empty body (stray semicolon): alive is
\* cleared on every call
input_update_unconditional ==
  /\ pc = "input_update"
  /\ Len(polls) < MaxFrames
  /\ \E k \in KeyStates, c \in CloseFlags :
       /\ polls' = Append(polls, <<k, c>>)
       /\ calls' = calls \o <<"input_update", "glfwGetKey">>
                         \o (IF k = GLFW_PRESS THEN <<>> ELSE <<"glfwWindowShouldClose">>)
       /\ alive' = FALSE
  /\ pc' = "if_alive"
  /\ UNCHANGED <<window, windowLive, status, exitStatus>>

\* input_update that destroys the window itself when exit is requested
input_update_destroys ==
  /\ pc = "input_update"
  /\ Len(polls) < MaxFrames
  /\ \E k \in KeyStates, c \in CloseFlags :
       /\ polls' = Append(polls, <<k, c>>)
       /\ calls' = calls \o <<"input_update", "glfwGetKey">>
                         \o (IF k = GLFW_PRESS THEN <<>> ELSE <<"glfwWindowShouldClose">>)
                         \o (IF ExitRequested(k, c) THEN <<"glfwDestroyWindow">> ELSE <<>>)
       /\ alive' = IF ExitRequested(k, c) THEN FALSE ELSE alive
       /\ windowLive' = IF ExitRequested(k, c) THEN FALSE ELSE windowLive
  /\ pc' = "if_alive"
  /\ UNCHANGED <<window, status, exitStatus>>

\* void input_update(): glfwWindowShouldClose is only evaluated when the
\* key is not pressed (short-circuit ||)
input_update ==
  /\ pc = "input_update"
  /\ Len(polls) < MaxFrames
  /\ \E k \in KeyStates, c \in CloseFlags :
       /\ polls' = Append(polls, <<k, c>>)
       /\ calls' = calls \o <<"input_update", "glfwGetKey">>
                         \o (IF k = GLFW_PRESS THEN <<>> ELSE <<"glfwWindowShouldClose">>)
       /\ alive' = IF ExitRequested(k, c) THEN FALSE ELSE alive
  /\ pc' = "if_alive"
  /\ UNCHANGED <<window, windowLive, status, exitStatus>>

\* the loop body without the re-check of alive: draw() every iteration
main_if_alive_noCheck ==
  /\ pc = "if_alive"
  /\ pc' = "draw"
  /\ UNCHANGED <<alive, window, windowLive, status, calls, polls, exitStatus>>

\* a loop body without the else branch: if (alive) draw(); and nothing else,
\* leaving the exit to the while condition
main_if_alive_noElse ==
  /\ pc = "if_alive"
  /\ pc' = IF alive THEN "draw" ELSE "while"
  /\ UNCHANGED <<alive, window, windowLive, status, calls, polls, exitStatus>>

\* if (alive) { draw(); } else { explode(); break; }
main_if_alive ==
  /\ pc = "if_alive"
  /\ pc' = IF alive THEN "draw" ELSE "explode"
  /\ UNCHANGED <<alive, window, windowLive, status, calls, polls, exitStatus>>

\* a loop body that calls draw() twice per iteration
draw_twice ==
  /\ pc = "draw"
  /\ calls' = calls \o <<"draw", "draw">>
  /\ pc' = "while"
  /\ UNCHANGED <<alive, window, windowLive, status, polls, exitStatus>>

\* a draw() that ends the program itself: clears alive and destroys the window
draw_ownsLifetime ==
  /\ pc = "draw"
  /\ calls' = calls \o <<"draw", "glfwDestroyWindow">>
  /\ alive' = FALSE
  /\ windowLive' = FALSE
  /\ pc' = "while"
  /\ UNCHANGED <<window, status, polls, exitStatus>>

\* void draw() {}  and back to the loop head
draw ==
  /\ pc = "draw"
  /\ calls' = Append(calls, "draw")
  /\ pc' = "while"
  /\ UNCHANGED <<alive, window, windowLive, status, polls, exitStatus>>

\* void explode() { glfwDestroyWindow(window); }
explode ==
  /\ pc = "explode"
  /\ calls' = Append(calls, "glfwDestroyWindow")
  /\ windowLive' = FALSE
  /\ pc' = "break"
  /\ UNCHANGED <<alive, window, status, polls, exitStatus>>

\* continue; in place of break;: the loop is left by its condition
main_break_continue ==
  /\ pc = "break"
  /\ pc' = "while"
  /\ UNCHANGED <<alive, window, windowLive, status, calls, polls, exitStatus>>

\* break;
main_break ==
  /\ pc = "break"
  /\ pc' = "return"
  /\ UNCHANGED <<alive, window, windowLive, status, calls, polls, exitStatus>>

\* a main that ends with return -1 after the loop
main_return_fail ==
  /\ pc = "return"
  /\ ReturnFail
  /\ UNCHANGED <<alive, window, windowLive, status, calls, polls>>

\* falling off the end of main returns 0
main_return ==
  /\ pc = "return"
  /\ pc' = "exited"
  /\ exitStatus' = <<0>>
  /\ UNCHANGED <<alive, window, windowLive, status, calls, polls>>

Next ==
  \/ main_glfwInit
  \/ main_glfwWindowHint
  \/ main_glfwCreateWindow
  \/ main_check_window
  \/ main_glfwMakeContextCurrent
  \/ main_glewInit
  \/ main_glfwSetInputMode
  \/ main_while
  \/ input_update
  \/ main_if_alive
  \/ draw
  \/ explode
  \/ main_break
  \/ main_return

Spec == Init /\ [][Next]_vars

\* main runs on the only thread of the process, which is never suspended:
\* whenever it has a next statement, it eventually executes it
FairSpec == Spec /\ WF_vars(Next)

TypeOK ==
  /\ pc \in {"glfwInit", "glfwWindowHint", "glfwCreateWindow", "check_window",
             "glfwMakeContextCurrent", "glewInit", "glfwSetInputMode", "while",
             "input_update", "if_alive", "draw", "explode", "break", "return", "exited"}
  /\ alive \in BOOLEAN
  /\ window \in {"NULL", "handle"}
  /\ windowLive \in BOOLEAN
  /\ exitStatus \in {<<>>, <<0>>, <<-1>>}
  /\ (pc = "exited") <=> (exitStatus # <<>>)
  /\ Len(polls) <= MaxFrames

(***************************************************************************)
(* Properties                                                              *)
(***************************************************************************)

\* calls that use the window handle, and the two hooks of the frame loop
WindowOps ==
  {"glfwMakeContextCurrent", "glfwSetInputMode", "glfwGetKey",
   "glfwWindowShouldClose", "glfwDestroyWindow", "input_update", "draw"}

\* the exit condition as seen by the i-th input_update
ExitSeen(i) == ExitRequested(polls[i][1], polls[i][2])

\* the exit condition is first seen by the k-th input_update
FirstSeenAt(k) ==
  /\ k \in DOMAIN polls
  /\ ExitSeen(k)
  /\ \A j \in 1..(k - 1) : ~ExitSeen(j)

\* C1: on every exit of main after a successful glfwInit, glfwTerminate has
\* been called exactly once, and when a window was created that call comes
\* after glfwDestroyWindow.
C1_TerminateOnceAfterDestroy ==
  (pc = "exited" /\ status.glfwInit = "ok") =>
     /\ Count("glfwTerminate") = 1
     /\ status.glfwCreateWindow = "ok" =>
          \E d \in At("glfwDestroyWindow") : \A t \in At("glfwTerminate") : d < t

\* C2: in every run in which glfwCreateWindow succeeds, the window is created
\* exactly once and destroyed exactly once before the process exits, on every
\* exit path (the glewInit failure path included).
C2_WindowCreatedAndDestroyedOnce ==
  (pc = "exited" /\ status.glfwCreateWindow = "ok") =>
     /\ Count("glfwCreateWindow") = 1
     /\ Count("glfwDestroyWindow") = 1

\* C3: draw is only ever being called with alive true, and once alive is
\* false no step adds another draw call.
C3_NoDrawAfterNotAlive ==
  /\ [](pc = "draw" => alive)
  /\ [][~alive => Count("draw")' = Count("draw")]_vars

C3_Witness ==
  /\ pc = "explode"
  /\ ~alive
  /\ Count("draw") = 2

\* C4: if the exit condition is first seen by input_update number k, draw is
\* called exactly k-1 times in the whole run, and the process exits with the
\* window destroyed (after the last draw) and status 0.
C4_DrawCountBeforeExit ==
  \A k \in DOMAIN polls :
     FirstSeenAt(k) =>
        /\ Count("draw") = k - 1
        /\ pc = "exited" =>
             /\ exitStatus = <<0>>
             /\ ~windowLive
             /\ Count("glfwDestroyWindow") = 1
             /\ \A d \in At("glfwDestroyWindow") : \A i \in At("draw") : i < d

C4_Witness ==
  /\ pc = "exited"
  /\ FirstSeenAt(5)
  /\ Count("draw") = 4
  /\ exitStatus = <<0>>

\* C5: if glfwInit fails the process exits with status -1 and nothing else
\* (window creation, make-current, loader init, poll, draw, destroy,
\* shutdown) is ever called.
C5_InitFailureExitsAtOnce ==
  status.glfwInit = "fail" =>
     /\ pc = "exited"
     /\ exitStatus = <<-1>>
     /\ calls = <<"glfwInit">>
     /\ window = "NULL"

C5_Witness ==
  /\ status.glfwInit = "fail"
  /\ pc = "exited"

\* C6: if glfwCreateWindow fails, glfwTerminate is called exactly once before
\* the process exits with status -1, and no make-current, loader init, poll,
\* draw or window destruction occurs.
C6_CreateFailureTerminates ==
  status.glfwCreateWindow = "fail" =>
     /\ pc \in {"check_window", "exited"}
     /\ \A i \in DOMAIN calls : calls[i] \notin (WindowOps \cup {"glewInit"})
     /\ pc = "check_window" => Count("glfwTerminate") = 0
     /\ pc = "exited" =>
          /\ exitStatus = <<-1>>
          /\ Count("glfwTerminate") = 1
          /\ calls[Len(calls)] = "glfwTerminate"

C6_Witness ==
  /\ status.glfwCreateWindow = "fail"
  /\ pc = "exited"
  /\ Count("glfwTerminate") = 1

\* C7: if glewInit fails the process exits with status -1 without entering
\* the frame loop: no input_update, no draw, no glfwSetInputMode.
C7_LoaderFailureSkipsLoop ==
  status.glewInit = "fail" =>
     /\ pc = "exited"
     /\ exitStatus = <<-1>>
     /\ polls = <<>>
     /\ \A i \in DOMAIN calls :
          calls[i] \notin {"input_update", "draw", "glfwSetInputMode",
                           "glfwGetKey", "glfwWindowShouldClose"}

C7_Witness ==
  /\ status.glewInit = "fail"
  /\ exitStatus = <<-1>>

\* C8: nothing is done with the window handle after glfwDestroyWindow: no
\* poll, draw, make-current, input-mode change or second destroy follows it.
C8_NoUseAfterDestroy ==
  \A d \in At("glfwDestroyWindow") :
     \A j \in DOMAIN calls : j > d => calls[j] \notin WindowOps

C8_Witness ==
  /\ pc = "exited"
  /\ window = "handle"
  /\ ~windowLive
  /\ Count("glfwDestroyWindow") = 1

\* C9: alive never goes from false to true; it only goes from true to false
\* in an input_update that sees Escape pressed or a close request; and an
\* input_update that sees neither leaves alive as it was.
C9_ExitIrrevocable ==
  [][ /\ (alive' => alive)
      /\ (alive /\ ~alive') =>
            /\ pc = "input_update"
            /\ Len(polls') = Len(polls) + 1
            /\ ExitRequested(polls'[Len(polls')][1], polls'[Len(polls')][2])
      /\ (Len(polls') = Len(polls) + 1
            /\ ~ExitRequested(polls'[Len(polls')][1], polls'[Len(polls')][2]))
           => alive' = alive ]_vars

C9_Witness ==
  /\ pc = "if_alive"
  /\ Len(polls) = 3
  /\ ~ExitSeen(1) /\ ~ExitSeen(2)
  /\ polls[3] = <<GLFW_RELEASE, 1>>
  /\ ~alive

\* C10: glfwMakeContextCurrent precedes glewInit, glewInit never runs without
\* it, and both have completed (glewInit successfully) before the first
\* input_update or draw.
C10_StartupOrder ==
  /\ \A g \in At("glewInit") : \E m \in At("glfwMakeContextCurrent") : m < g
  /\ \A i \in At("input_update") \cup At("draw") :
        /\ status.glewInit = "ok"
        /\ \E g \in At("glewInit") :
              /\ g < i
              /\ \E m \in At("glfwMakeContextCurrent") : m < g

C10_Witness ==
  /\ pc = "draw"
  /\ Count("input_update") = 1
  /\ Count("glfwMakeContextCurrent") = 1
  /\ status.glewInit = "ok"

\* the history restricted to the two hooks of the frame loop
IsHook(c) == c \in {"input_update", "draw"}

Hooks == SelectSeq(calls, IsHook)

\* C11: in every iteration in which exit is not requested, input_update is
\* called once and then draw once, in that order, before the next
\* input_update; draw is never called twice without an input_update between.
C11_PollThenDrawEachIteration ==
  /\ Count("input_update") = Len(polls)
  /\ \A j \in DOMAIN Hooks :
        /\ Hooks[j] = "draw" => (j > 1 /\ Hooks[j - 1] = "input_update")
        /\ (Hooks[j] = "input_update" /\ j < Len(Hooks)) => Hooks[j + 1] = "draw"
  /\ \A i \in DOMAIN polls :
        (~ExitSeen(i) /\ (i < Len(polls) \/ pc \in {"while", "input_update"}))
           => /\ Len(Hooks) >= 2 * i
              /\ Hooks[2 * i - 1] = "input_update"
              /\ Hooks[2 * i] = "draw"

C11_Witness ==
  /\ pc = "input_update"
  /\ Len(polls) = 3
  /\ Hooks = <<"input_update", "draw", "input_update", "draw", "input_update", "draw">>

\* C12: on the glewInit failure path no teardown is performed: neither
\* glfwDestroyWindow nor glfwTerminate is called between the failing glewInit
\* and the exit, so the process exits with the window still live.
C12_NoTeardownOnLoaderFailure ==
  status.glewInit = "fail" =>
     /\ pc = "exited"
     /\ calls[Len(calls)] = "glewInit"
     /\ Count("glfwDestroyWindow") = 0
     /\ Count("glfwTerminate") = 0
     /\ window = "handle"
     /\ windowLive

C12_Witness ==
  /\ status.glewInit = "fail"
  /\ pc = "exited"
  /\ windowLive

\* C13: draw leaves alive, the window handle and the window's live/destroyed
\* status unchanged; alive is written only by input_update, the handle only
\* by the assignment in main, and the window is only destroyed by explode.
C13_DrawLeavesLifetimeAlone ==
  [][ /\ pc = "draw" =>
           (alive' = alive /\ window' = window /\ windowLive' = windowLive)
      /\ alive' # alive => pc = "input_update"
      /\ window' # window => pc = "glfwCreateWindow"
      /\ (windowLive /\ ~windowLive') => pc = "explode"
      /\ (~windowLive /\ windowLive') => pc = "glfwCreateWindow" ]_vars

C13_Witness ==
  /\ pc = "while"
  /\ Count("draw") = 1
  /\ alive
  /\ window = "handle"
  /\ windowLive

\* main is inside the frame loop
InLoop == pc \in {"while", "input_update", "if_alive", "draw"}

\* C14: once input_update has seen the exit condition, the window is
\* destroyed with no further input_update or draw in between and the process
\* then terminates (under weak fairness of the steps of main); as long as the
\* exit condition has not been seen the loop is not left and can always go on.
C14_ShutdownResponse ==
  /\ [][~alive => /\ polls' = polls
                  /\ calls' \in {calls, Append(calls, "glfwDestroyWindow")}]_vars
  /\ (~alive) ~> (pc = "exited" /\ ~windowLive /\ Count("glfwDestroyWindow") = 1)
  /\ []((status.glewInit = "ok" /\ alive) => (InLoop \/ pc = "glfwSetInputMode"))
  /\ []((InLoop /\ alive /\ Len(polls) < MaxFrames) => ENABLED <<Next>>_vars)

C14_Witness ==
  /\ pc = "exited"
  /\ ~alive
  /\ ~windowLive
  /\ Len(polls) = 2
  /\ calls[Len(calls)] = "glfwDestroyWindow"

\* one of the three start-up steps failed
StartupFailed ==
  \/ status.glfwInit = "fail"
  \/ status.glfwCreateWindow = "fail"
  \/ status.glewInit = "fail"

\* the frame loop was entered and the last input_update saw the exit condition
LeftByUserExit ==
  /\ status.glewInit = "ok"
  /\ Count("glfwSetInputMode") = 1
  /\ Len(polls) >= 1
  /\ ExitSeen(Len(polls))

\* C15: the exit status is -1 exactly when glfwInit, glfwCreateWindow or
\* glewInit failed, and 0 exactly when the frame loop was entered and left
\* through a user exit request; no other status is reachable, and a run that
\* entered the loop never exits with -1.
C15_ExitStatus ==
  pc = "exited" =>
     /\ exitStatus \in {<<0>>, <<-1>>}
     /\ exitStatus = <<-1>> <=> StartupFailed
     /\ exitStatus = <<0>> <=> LeftByUserExit
     /\ Count("glfwSetInputMode") = 1 => exitStatus # <<-1>>

C15_Witness ==
  /\ pc = "exited"
  /\ exitStatus = <<0>>
  /\ LeftByUserExit
  /\ ~StartupFailed
  /\ polls = <<<<GLFW_RELEASE, 0>>, <<GLFW_PRESS, 0>>>>

\* C16: with alive starting true, the while condition is never false at the
\* loop head, so the loop is only left through explode(); break; every normal
\* termination has gone through explode exactly once, and explode is never
\* reached on a start-up failure path.
C16_LoopLeftOnlyByBreak ==
  /\ [](pc = "while" => alive)
  /\ [][(pc' = "return" /\ pc # "return") => pc = "break"]_vars
  /\ []((pc = "return" \/ exitStatus = <<0>>) => Count("glfwDestroyWindow") = 1)
  /\ [](StartupFailed => (pc # "explode" /\ Count("glfwDestroyWindow") = 0))

C16_Witness ==
  /\ pc = "return"
  /\ ~alive
  /\ Count("glfwDestroyWindow") = 1
  /\ Count("draw") = 1

====
